---- MODULE Spec2Model ----
(***************************************************************************)
(* Page interactivity controller of the Wolf-Byte showcase site            *)
(* (assets/js/main.js): the DOMContentLoaded handler and every event,      *)
(* observer, timer and frame callback it registers.                        *)
(***************************************************************************)
EXTENDS Integers, Sequences, FiniteSets, TLC

VARIABLES
    pc,              \* "loading" before the DOMContentLoaded handler ran, "ready" after
    present,         \* which elements of the page markup exist
    navActive,       \* navMenu.classList contains 'active'
    toggleActive,    \* menuToggle.classList contains 'active'
    scrolledTo,      \* target of the last scrollIntoView call, NoTarget if none
    errors,          \* uncaught exceptions reported so far
    lastEvent,       \* the user event or form timeout handled last, with its input
    scrollY,         \* window.scrollY / window.pageYOffset
    headerBg,        \* header.style.background
    heroTransform,   \* heroContent.style.transform, translateY in px as a rational
    heroOpacity,     \* heroContent.style.opacity as a rational
    buttonText,      \* submitButton.textContent
    buttonBg,        \* submitButton.style.background
    fieldsFilled,    \* the form's fields hold user input
    formTimers,      \* pending 3000ms timeouts, oldest first: the originalText each captured
    submits,         \* number of submit events dispatched
    observed,        \* per IntersectionObserver, its observation targets
    queued,          \* per IntersectionObserver, the entries queued for its next callback
    prevIndex,       \* per target, the browser's previousThresholdIndex (-1: never computed)
    calls,           \* per target, how often its observer's action was executed
    textContent,     \* per .stat-value element, its text (a sequence of characters)
    intervals,       \* the setInterval timers animateValue created, with their closures
    runQueue,        \* the live interval timers in the order they fire next
    chatStyle,       \* per chat bubble, its inline opacity and transform
    chatTimeouts,    \* pending 300ms timeouts of typingObserver, oldest first
    cardStyle,       \* per card, its inline opacity and transform and its 'animate-in' class
    rafPending,      \* animate callbacks requested for the next frame
    elapsed,         \* Date.now() - startTime of drawChart
    canvas           \* what the last chart frame drew

navVars     == <<navActive, toggleActive, scrolledTo>>
scrollVars  == <<scrollY, headerBg, heroTransform, heroOpacity>>
formVars    == <<buttonText, buttonBg, fieldsFilled, formTimers, submits>>
pageVars    == <<errors, lastEvent, navVars, scrollVars, formVars>>
ioVars      == <<observed, queued, prevIndex, calls>>
counterVars == <<textContent, intervals, runQueue>>
chatVars    == <<chatStyle, chatTimeouts>>
chartVars   == <<rafPending, elapsed, canvas>>
obsVars     == <<ioVars, counterVars, chatVars, cardStyle, chartVars>>
vars        == <<pc, present, pageVars, obsVars>>

---------------------------------------------------------------------------
(* Bounds of the model *)
MaxScroll  == 900      \* largest scroll offset tried
MaxSubmits == 2        \* submit events per page load
MaxBatch   == 3        \* entries queued for one observer callback
MaxTextLen == 3        \* characters of a counter's text

(* Page markup *)
Markup == {"menuToggle", "navMenu", "header", "contactForm", "submitButton",
           "chartCanvas", "heroContent"}
NoTarget    == <<>>
DocIds      == {<<"a">>}                      \* ids of the document's elements
AnchorHrefs == {<<"#">>, <<"#", "a">>, <<"#", "b">>, <<"#", "1">>}
ScrollOffsets == {0, 100, 101, 150, 300, 600, MaxScroll}
InitialLabel == "Enviar Mensaje"
\* the success label of main.js 128; its check mark U+2713 is written [U+2713]
SuccessLabel == "[U+2713] Mensaje Enviado!"

(* Rationals, for values the script computes by division *)
Rat(n, d)   == [num |-> n, den |-> d]
RatEq(a, b) == a.num * b.den = b.num * a.den
RatNeg(a)   == a.num * a.den < 0

---------------------------------------------------------------------------
(* document.querySelector on an href: '#' followed by an identifier is an  *)
(* id selector; anything else is not a selector and raises SyntaxError.    *)
IsDigit(c) == c \in {"0", "1", "2", "3", "4", "5", "6", "7", "8", "9"}
SelectorValid(sel) ==
    /\ Len(sel) >= 2
    /\ sel[1] = "#"
    /\ ~IsDigit(sel[2])
    /\ \A i \in 2..Len(sel) : sel[i] # "#"
querySelector(sel) ==
    IF ~SelectorValid(sel) THEN "SyntaxError"
    ELSE IF Tail(sel) \in DocIds THEN "found"
    ELSE "null"

---------------------------------------------------------------------------
(* IEEE-754 binary64 arithmetic, as JavaScript numbers compute it.         *)
(* A non-negative number is held exactly as an integer count of units      *)
(* 2^-scale; the integer is up to 60 bits wide and kept as three 20-bit    *)
(* limbs, least significant first.  A binary64 result keeps 53 significant *)
(* bits, rounded to nearest, ties to even.                                 *)
Limb == 2^20
BigZero == <<0, 0, 0>>
BigAdd(a, b) ==
    LET s0 == a[1] + b[1]
        s1 == a[2] + b[2] + (s0 \div Limb)
        s2 == a[3] + b[3] + (s1 \div Limb)
    IN  <<s0 % Limb, s1 % Limb, s2>>
BigGeq(a, b) ==
    IF a[3] # b[3] THEN a[3] > b[3]
    ELSE IF a[2] # b[2] THEN a[2] > b[2]
    ELSE a[1] >= b[1]
\* x * 2^t, for 0 <= x < 2^20 and a product below 2^60
BigShl(x, t) ==
    LET b  == t % 20
        k  == t \div 20
        hi == x \div 2^(20 - b)
        lo == (x % 2^(20 - b)) * 2^b
    IN  [i \in 1..3 |-> IF i = k + 1 THEN lo
                        ELSE IF i = k + 2 THEN hi
                        ELSE 0]
\* floor(a / 2^t), for a result below 2^11
BigShr(a, t) ==
    IF t >= 40 THEN a[3] \div 2^(t - 40)
    ELSE IF t >= 20 THEN (a[3] * Limb + a[2]) \div 2^(t - 20)
    ELSE ((a[3] * Limb + a[2]) * Limb + a[1]) \div 2^t
\* quotient and remainder of a by a small divisor d
BigDivSmall(a, d) ==
    LET t2 == a[3]
        t1 == (t2 % d) * Limb + a[2]
        t0 == (t1 % d) * Limb + a[1]
    IN  [q |-> <<t0 \div d, t1 \div d, t2 \div d>>, r |-> t0 % d]
BitLenLimb(x) == CHOOSE k \in 0..21 : x < 2^k /\ (k = 0 \/ x >= 2^(k - 1))
BitLen(a) ==
    IF a[3] > 0 THEN 40 + BitLenLimb(a[3])
    ELSE IF a[2] > 0 THEN 20 + BitLenLimb(a[2])
    ELSE BitLenLimb(a[1])
\* the binary64 nearest to the exact value a (round to nearest, ties to even)
RoundToDouble(a) ==
    LET d == BitLen(a) - 53 IN
    IF d <= 0 THEN a
    ELSE LET ulp  == 2^d
             rem  == a[1] % ulp
             down == <<a[1] - rem, a[2], a[3]>>
             odd  == (a[1] \div ulp) % 2 = 1
         IN  IF rem * 2 > ulp \/ (rem * 2 = ulp /\ odd)
             THEN BigAdd(down, <<ulp, 0, 0>>)
             ELSE down
\* binary64 addition
DoubleAdd(a, b) == RoundToDouble(BigAdd(a, b))

---------------------------------------------------------------------------
(* animateValue, main.js 62-91. *)
duration == 2000
stepTime == 50
steps    == duration \div stepTime

Includes(text, c) == \E i \in 1..Len(text) : text[i] = c
DigitValue(c) ==
    CASE c = "0" -> 0 [] c = "1" -> 1 [] c = "2" -> 2 [] c = "3" -> 3 [] c = "4" -> 4
      [] c = "5" -> 5 [] c = "6" -> 6 [] c = "7" -> 7 [] c = "8" -> 8 [] c = "9" -> 9
RECURSIVE DigitsValue(_)
DigitsValue(ds) ==
    IF ds = <<>> THEN 0
    ELSE DigitsValue(SubSeq(ds, 1, Len(ds) - 1)) * 10 + DigitValue(ds[Len(ds)])
NaN == -1
\* mutant: a text without digits counts as 0, as `parseInt(...) || 0` would
ParseNumericOrZero(text) ==
    LET ds == SelectSeq(text, IsDigit) IN
    IF ds = <<>> THEN 0 ELSE DigitsValue(ds)
\* parseInt(text.replace(/[^0-9]/g, ''))
ParseNumeric(text) ==
    LET ds == SelectSeq(text, IsDigit) IN
    IF ds = <<>> THEN NaN ELSE DigitsValue(ds)

\* String(n) for an integer n >= 0
DigitChar(d) ==
    CASE d = 0 -> "0" [] d = 1 -> "1" [] d = 2 -> "2" [] d = 3 -> "3" [] d = 4 -> "4"
      [] d = 5 -> "5" [] d = 6 -> "6" [] d = 7 -> "7" [] d = 8 -> "8" [] d = 9 -> "9"
RECURSIVE NumberToString(_)
NumberToString(n) ==
    IF n < 10 THEN <<DigitChar(n)>>
    ELSE Append(NumberToString(n \div 10), DigitChar(n % 10))

\* the scale at which numericValue / steps has a 53-bit significand:
\* steps = 40 = 5 * 2^3, so the quotient in units 2^-scale is n * 2^(scale-3) / 5
QuotientAt(n, scale) == BigDivSmall(BigShl(n, scale - 3), steps \div 8)
ScaleOf(n) ==
    IF n = 0 THEN 3
    ELSE CHOOSE scale \in 3..59 : BitLen(QuotientAt(n, scale).q) = 53
\* increment = numericValue / steps, rounded to binary64
Increment(n) ==
    LET qr == QuotientAt(n, ScaleOf(n)) IN
    IF qr.r * 2 > steps \div 8 THEN BigAdd(qr.q, <<1, 0, 0>>) ELSE qr.q

\* the closure of one animateValue call that reached setInterval
NewInterval(el) ==
    LET text == textContent[el]
        n    == ParseNumeric(text)
    IN  [element      |-> el,
         text         |-> text,
         hasPercent   |-> Includes(text, "%"),
         hasPlus      |-> Includes(text, "+"),
         hasMinus     |-> Includes(text, "-"),
         numericValue |-> n,
         scale        |-> ScaleOf(n),
         increment    |-> Increment(n),
         current      |-> BigZero,
         ticks        |-> 0,
         cleared      |-> FALSE]

\* the text one tick displays, main.js 84-87
DisplayValue(t, current) ==
    LET floor == NumberToString(BigShr(current, t.scale))
        d1 == IF t.hasMinus THEN <<"-">> \o floor ELSE floor
        d2 == IF t.hasPlus THEN <<"+">> \o d1 ELSE d1
    IN  IF t.hasPercent THEN Append(d2, "%") ELSE d2

\* the state of timer t after its callback ran once, main.js 77-90
Ticked(t) ==
    LET sum    == DoubleAdd(t.current, t.increment)
        target == BigShl(t.numericValue, t.scale)
        done   == BigGeq(sum, target)
    IN  [t EXCEPT !.current = IF done THEN target ELSE sum,
                  !.cleared = done,
                  !.ticks = @ + 1]

(* The interval timer that is due next fires.  All timers have the same    *)
(* 50ms period, so they fire in rotation, a new timer after the older ones.*)
Tick ==
    /\ runQueue # <<>>
    /\ LET i == Head(runQueue)
           t == Ticked(intervals[i])
       IN  /\ intervals' = [intervals EXCEPT ![i] = t]
           /\ textContent' = [textContent EXCEPT ![t.element] = DisplayValue(t, t.current)]
           /\ runQueue' = IF t.cleared THEN Tail(runQueue)
                          ELSE Append(Tail(runQueue), i)
    /\ UNCHANGED <<pc, present, pageVars, ioVars, chatVars, cardStyle, chartVars>>

---------------------------------------------------------------------------
(* The four IntersectionObservers, main.js 49-60, 94-112, 163-172, 277-291 *)
ObserverNames == {"observer", "typingObserver", "animateOnScroll", "chartObserver"}
ChartId == "chart1"
StatEls == DOMAIN textContent
ChatEls == DOMAIN chatStyle
CardEls == DOMAIN cardStyle
Elements == StatEls \cup ChatEls \cup CardEls \cup {ChartId}

Entry(e, b) == [target |-> e, isIntersecting |-> b]
IsIntersecting(entry) == entry.isIntersecting
\* the entries of a callback batch whose branch `if (entry.isIntersecting)` runs
Triggered(entries) == SelectSeq(entries, IsIntersecting)
Targets(entries) == {entries[i].target : i \in 1..Len(entries)}
Times(entries, e) == Cardinality({i \in 1..Len(entries) : entries[i].target = e})

(* The browser's intersection update for target e of observer o: the       *)
(* target crossed the observer's threshold since the last update (or was   *)
(* never computed), so an entry is queued for o's next callback.           *)
Intersect(o, e) ==
    /\ pc = "ready"
    /\ e \in observed[o]
    /\ Len(queued[o]) < MaxBatch
    /\ \E idx \in {0, 1} \ {prevIndex[e]} :
          /\ prevIndex' = [prevIndex EXCEPT ![e] = idx]
          /\ queued' = [queued EXCEPT ![o] = Append(@, Entry(e, idx = 1))]
    /\ UNCHANGED <<pc, present, pageVars, observed, calls, counterVars, chatVars,
                   cardStyle, chartVars>>

\* what every one of the four callbacks does besides its action:
\* the batch is consumed, and each triggered target is counted and unobserved
Delivered(o) ==
    LET trig == Triggered(queued[o]) IN
    /\ queued[o] # <<>>
    /\ queued' = [queued EXCEPT ![o] = <<>>]
    /\ calls' = [e \in DOMAIN calls |-> calls[e] + Times(trig, e)]
    /\ observed' = [observed EXCEPT ![o] = @ \ Targets(trig)]
    /\ UNCHANGED prevIndex

HasNumber(entry) == ParseNumeric(textContent[entry.target]) # NaN

(* Callback of observer, main.js 49-56: animateValue per triggered entry.  *)
StatCallback ==
    /\ Delivered("observer")
    /\ LET started == SelectSeq(Triggered(queued["observer"]), HasNumber) IN
       /\ intervals' = intervals \o
              [i \in 1..Len(started) |-> NewInterval(started[i].target)]
       /\ runQueue' = runQueue \o [i \in 1..Len(started) |-> Len(intervals) + i]
    /\ UNCHANGED <<pc, present, pageVars, textContent, chatVars, cardStyle, chartVars>>

\* mutant: the bubble is shown in the callback itself, without the timeout
ChatCallbackImmediate ==
    /\ Delivered("typingObserver")
    /\ LET hit == Targets(Triggered(queued["typingObserver"])) IN
       chatStyle' = [e \in DOMAIN chatStyle |->
                        IF e \in hit
                        THEN [chatStyle[e] EXCEPT !.opacity = "1",
                                                  !.transform = "translateY(0)"]
                        ELSE chatStyle[e]]
    /\ UNCHANGED <<pc, present, pageVars, counterVars, chatTimeouts, cardStyle, chartVars>>
(* Callback of typingObserver, main.js 95-105: a 300ms timeout per entry.  *)
ChatCallback ==
    /\ Delivered("typingObserver")
    /\ LET trig == Triggered(queued["typingObserver"]) IN
       chatTimeouts' = chatTimeouts \o [i \in 1..Len(trig) |-> trig[i].target]
    /\ UNCHANGED <<pc, present, pageVars, counterVars, chatStyle, cardStyle, chartVars>>

(* The oldest 300ms timeout fires, main.js 98-101. *)
ChatTimeout ==
    /\ chatTimeouts # <<>>
    /\ chatStyle' = [chatStyle EXCEPT ![Head(chatTimeouts)] =
                        [@ EXCEPT !.opacity = "1", !.transform = "translateY(0)"]]
    /\ chatTimeouts' = Tail(chatTimeouts)
    /\ UNCHANGED <<pc, present, pageVars, ioVars, counterVars, cardStyle, chartVars>>

(* Callback of animateOnScroll, main.js 277-284. *)
CardCallback ==
    /\ Delivered("animateOnScroll")
    /\ LET hit == Targets(Triggered(queued["animateOnScroll"])) IN
       cardStyle' = [e \in DOMAIN cardStyle |->
                        IF e \in hit THEN [cardStyle[e] EXCEPT !.animateIn = TRUE]
                        ELSE cardStyle[e]]
    /\ UNCHANGED <<pc, present, pageVars, counterVars, chatVars, chartVars>>

---------------------------------------------------------------------------
(* drawChart and its frame loop, main.js 175-264. *)
data == <<65, 78, 85, 72, 90, 95, 88, 92, 97, 100, 105, 110>>
animationDuration == 2000
GridLines == 6

BlankCanvas == [progress |-> Rat(0, 1), points |-> <<>>, gridLines |-> 0,
                area |-> FALSE, line |-> FALSE, circles |-> 0]

\* progress = Math.min((currentTime - startTime) / animationDuration, 1)
Progress(t) ==
    IF t >= animationDuration THEN Rat(1, 1) ELSE Rat(t, animationDuration)
\* mutant: the count taken over data.length - 1
VisibleCountShort(progress) == ((Len(data) - 1) * progress.num) \div progress.den
\* Math.floor(data.length * progress)
VisibleCount(progress) == (Len(data) * progress.num) \div progress.den
\* data.slice(0, Math.floor(data.length * progress))
VisiblePoints(progress) == SubSeq(data, 1, VisibleCount(progress))

\* mutant: the area, line and circles are drawn from one point on
AnimateFrameFromOne(t) ==
    LET progress == Progress(t)
        points   == VisiblePoints(progress)
        drawn    == Len(points) >= 1
    IN  [progress  |-> progress,
         points    |-> points,
         gridLines |-> GridLines,
         area      |-> drawn,
         line      |-> drawn,
         circles   |-> IF drawn THEN Len(points) ELSE 0]
\* what one call of animate draws t ms after startTime, main.js 200-256
AnimateFrame(t) ==
    LET progress == Progress(t)
        points   == VisiblePoints(progress)
        drawn    == Len(points) > 1
    IN  [progress  |-> progress,
         points    |-> points,
         gridLines |-> GridLines,
         area      |-> drawn,
         line      |-> drawn,
         circles   |-> IF drawn THEN Len(points) ELSE 0]
\* mutant: the loop gives up once half the duration has passed
AgainUntilHalf(frame) == frame.progress.num * 2 < frame.progress.den
\* if (progress < 1) requestAnimationFrame(animate), main.js 258-260
Again(frame) == frame.progress.num < frame.progress.den

(* Callback of chartObserver, main.js 163-170: drawChart per triggered     *)
(* entry; each call draws its first frame at once and requests the next.   *)
ChartCallback ==
    /\ Delivered("chartObserver")
    /\ LET n == Len(Triggered(queued["chartObserver"])) IN
       IF n = 0 THEN UNCHANGED chartVars
       ELSE /\ elapsed' = 0
            /\ canvas' = AnimateFrame(0)
            /\ rafPending' = rafPending + (IF Again(AnimateFrame(0)) THEN n ELSE 0)
    /\ UNCHANGED <<pc, present, pageVars, counterVars, chatVars, cardStyle>>

(* The next animation frame, dt ms after the previous one: every animate   *)
(* callback requested for it runs, main.js 200-261.                        *)
Frame(dt) ==
    /\ rafPending > 0
    /\ elapsed' = elapsed + dt
    /\ canvas' = AnimateFrame(elapsed + dt)
    /\ rafPending' = IF Again(AnimateFrame(elapsed + dt)) THEN rafPending ELSE 0
    /\ UNCHANGED <<pc, present, pageVars, ioVars, counterVars, chatVars, cardStyle>>

---------------------------------------------------------------------------
(* What the DOMContentLoaded handler sets up for the observers:            *)
(* main.js 58-60, 107-112, 157-173, 286-291.                               *)
Initialize ==
    /\ observed' = [o \in ObserverNames |->
                       CASE o = "observer" -> StatEls
                         [] o = "typingObserver" -> ChatEls
                         [] o = "animateOnScroll" -> CardEls
                         [] o = "chartObserver" ->
                               IF present["chartCanvas"] THEN {ChartId} ELSE {}]
    /\ chatStyle' = [e \in ChatEls |->
                       [opacity |-> "0", transform |-> "translateY(20px)",
                        transition |-> "all 0.5s ease"]]
    /\ cardStyle' = [e \in CardEls |->
                       [cardStyle[e] EXCEPT !.opacity = "0",
                                            !.transform = "translateY(50px)",
                                            !.transition = "all 0.6s ease"]]
    /\ UNCHANGED <<queued, prevIndex, calls, counterVars, chatTimeouts, chartVars>>

---------------------------------------------------------------------------
(* The DOMContentLoaded handler, main.js 2-302. *)
DOMContentLoaded ==
    /\ pc = "loading"
    /\ pc' = "ready"
    /\ lastEvent' = <<"DOMContentLoaded">>
    /\ Initialize
    /\ UNCHANGED <<present, errors, navVars, scrollVars, formVars>>

\* mutant: the click toggles the menu and forgets the button
MenuClickNavOnly ==
    /\ pc = "ready"
    /\ present["menuToggle"]
    /\ lastEvent' = <<"menuClick">>
    /\ IF present["navMenu"]
       THEN /\ navActive' = ~navActive
            /\ UNCHANGED <<toggleActive, errors>>
       ELSE /\ errors' = errors \cup {"TypeError@menuClick"}
            /\ UNCHANGED <<navActive, toggleActive>>
    /\ UNCHANGED <<pc, present, scrolledTo, scrollVars, formVars, obsVars>>
(* menuToggle click listener, main.js 7-12. *)
MenuClick ==
    /\ pc = "ready"
    /\ present["menuToggle"]
    /\ lastEvent' = <<"menuClick">>
    /\ IF present["navMenu"]
       THEN /\ navActive' = ~navActive
            /\ toggleActive' = ~toggleActive
            /\ UNCHANGED errors
       ELSE /\ errors' = errors \cup {"TypeError@menuClick"}
            /\ UNCHANGED <<navActive, toggleActive>>
    /\ UNCHANGED <<pc, present, scrolledTo, scrollVars, formVars, obsVars>>

\* mutant: the menu is closed and the button keeps its active state
CloseMenuNavOnly ==
    IF ~present["navMenu"]
    THEN /\ errors' = errors \cup {"TypeError@anchorClick"}
         /\ UNCHANGED <<navActive, toggleActive>>
    ELSE IF navActive
    THEN /\ navActive' = FALSE
         /\ UNCHANGED <<toggleActive, errors>>
    ELSE UNCHANGED <<navActive, toggleActive, errors>>
(* Close the mobile menu if open, main.js 24-28. *)
CloseMenu ==
    IF ~present["navMenu"]
    THEN /\ errors' = errors \cup {"TypeError@anchorClick"}
         /\ UNCHANGED <<navActive, toggleActive>>
    ELSE IF navActive
    THEN /\ navActive' = FALSE
         /\ IF present["menuToggle"]
            THEN /\ toggleActive' = FALSE
                 /\ UNCHANGED errors
            ELSE /\ errors' = errors \cup {"TypeError@anchorClick"}
                 /\ UNCHANGED toggleActive
    ELSE UNCHANGED <<navActive, toggleActive, errors>>

(* Click listener of an a[href^="#"] anchor, main.js 15-31. *)
AnchorClick(href) ==
    /\ pc = "ready"
    /\ lastEvent' = <<"anchorClick", href>>
    /\ LET target == querySelector(href) IN
       CASE target = "SyntaxError" ->
              /\ errors' = errors \cup {"SyntaxError@anchorClick"}
              /\ UNCHANGED navVars
         [] target = "null" ->
              UNCHANGED <<navVars, errors>>
         [] OTHER ->
              /\ scrolledTo' = Tail(href)
              /\ CloseMenu
    /\ UNCHANGED <<pc, present, scrollVars, formVars, obsVars>>

\* mutant: the threshold compared with >= instead of >
HeaderBackgroundAtLeast(y) ==
    IF y >= 100 THEN "rgba(10, 10, 10, 0.98)"
    ELSE "linear-gradient(180deg, rgba(10,10,10,0.95) 0%, rgba(26,26,26,0.9) 100%)"
(* Navbar background on scroll, main.js 34-41. *)
HeaderBackground(y) ==
    IF y > 100 THEN "rgba(10, 10, 10, 0.98)"
    ELSE "linear-gradient(180deg, rgba(10,10,10,0.95) 0%, rgba(26,26,26,0.9) 100%)"

(* Parallax of the hero, main.js 267-274. *)
HeroTranslate(scrolled) == Rat(scrolled * 5, 10)
\* mutant: the opacity clamped at 0
HeroOpacityClamped(scrolled) ==
    IF scrolled > 600 THEN Rat(0, 600) ELSE Rat(600 - scrolled, 600)
HeroOpacity(scrolled)   == Rat(600 - scrolled, 600)

(* A scroll event: both scroll listeners run, in registration order; an    *)
(* exception in the first is reported and does not stop the second.        *)
Scroll(y) ==
    /\ pc = "ready"
    /\ lastEvent' = <<"scroll", y>>
    /\ scrollY' = y
    /\ IF present["header"]
       THEN /\ headerBg' = HeaderBackground(y)
            /\ UNCHANGED errors
       ELSE /\ errors' = errors \cup {"TypeError@headerScroll"}
            /\ UNCHANGED headerBg
    /\ IF present["heroContent"]
       THEN /\ heroTransform' = HeroTranslate(y)
            /\ heroOpacity' = HeroOpacity(y)
       ELSE UNCHANGED <<heroTransform, heroOpacity>>
    /\ UNCHANGED <<pc, present, navVars, formVars, obsVars>>

(* The user types into the contact form. *)
FillForm ==
    /\ pc = "ready"
    /\ present["contactForm"]
    /\ ~fieldsFilled
    /\ fieldsFilled' = TRUE
    /\ lastEvent' = <<"input">>
    /\ UNCHANGED <<pc, present, errors, navVars, scrollVars,
                   buttonText, buttonBg, formTimers, submits, obsVars>>

(* contactForm submit listener, main.js 117-142. *)
Submit ==
    /\ pc = "ready"
    /\ present["contactForm"]
    /\ submits < MaxSubmits
    /\ submits' = submits + 1
    /\ lastEvent' = <<"submit">>
    /\ IF present["submitButton"]
       THEN LET originalText == buttonText IN
            /\ buttonText' = SuccessLabel
            /\ buttonBg' = "linear-gradient(135deg, #2ecc71, #27ae60)"
            /\ fieldsFilled' = FALSE
            /\ formTimers' = Append(formTimers, originalText)
            /\ UNCHANGED errors
       ELSE /\ errors' = errors \cup {"TypeError@submit"}
            /\ UNCHANGED <<buttonText, buttonBg, fieldsFilled, formTimers>>
    /\ UNCHANGED <<pc, present, navVars, scrollVars, obsVars>>

(* The oldest 3000ms timeout of the submit listener fires, main.js 135-138. *)
ResetButton ==
    /\ formTimers # <<>>
    /\ buttonText' = Head(formTimers)
    /\ buttonBg' = "linear-gradient(135deg, var(--lannister-gold), var(--lannister-red))"
    /\ formTimers' = Tail(formTimers)
    /\ lastEvent' = <<"timeout">>
    /\ UNCHANGED <<pc, present, errors, navVars, scrollVars,
                   fieldsFilled, submits, obsVars>>

---------------------------------------------------------------------------
(* Initial states: the document as parsed, before DOMContentLoaded.        *)
NoStyle == [opacity |-> "", transform |-> "", transition |-> ""]
CardNoStyle == [opacity |-> "", transform |-> "", transition |-> "", animateIn |-> FALSE]

\* a document with the given counters (element -> text), chat bubbles and cards
Document(stats, chats, cards) ==
    /\ pc = "loading"
    /\ scrolledTo = NoTarget
    /\ errors = {}
    /\ lastEvent = <<"parse">>
    /\ scrollY = 0
    /\ headerBg = ""
    /\ heroTransform = Rat(0, 1)
    /\ heroOpacity = Rat(1, 1)
    /\ buttonText = InitialLabel
    /\ buttonBg = ""
    /\ fieldsFilled = FALSE
    /\ formTimers = <<>>
    /\ submits = 0
    /\ textContent = stats
    /\ chatStyle = [e \in chats |-> NoStyle]
    /\ cardStyle = [e \in cards |-> CardNoStyle]
    /\ observed = [o \in ObserverNames |-> {}]
    /\ queued = [o \in ObserverNames |-> <<>>]
    /\ prevIndex = [e \in DOMAIN stats \cup chats \cup cards \cup {ChartId} |-> -1]
    /\ calls = [e \in DOMAIN stats \cup chats \cup cards \cup {ChartId} |-> 0]
    /\ intervals = <<>>
    /\ runQueue = <<>>
    /\ chatTimeouts = <<>>
    /\ rafPending = 0
    /\ elapsed = 0
    /\ canvas = BlankCanvas

NoStats == [e \in {} |-> <<>>]
AllPresent == [m \in Markup |-> TRUE]

\* navigation, scrolling and the form, on a page with any subset of the markup
InitPage ==
    /\ present \in [Markup -> BOOLEAN]
    /\ present["contactForm"] \/ ~present["submitButton"]
    /\ navActive \in BOOLEAN
    /\ toggleActive \in BOOLEAN
    /\ present["navMenu"] \/ ~navActive
    /\ present["menuToggle"] \/ ~toggleActive
    /\ Document(NoStats, {}, {})

NextPage ==
    \/ DOMContentLoaded
    \/ MenuClick
    \/ \E href \in AnchorHrefs : AnchorClick(href)
    \/ \E y \in ScrollOffsets : Scroll(y)
    \/ FillForm
    \/ Submit
    \/ ResetButton

SpecPage == InitPage /\ [][NextPage]_vars

\* navigation and scrolling alone, with or without each element they use
InitNav ==
    /\ present \in [Markup -> BOOLEAN]
    /\ present["contactForm"] /\ present["submitButton"] /\ present["chartCanvas"]
    /\ navActive \in BOOLEAN
    /\ toggleActive \in BOOLEAN
    /\ present["navMenu"] \/ ~navActive
    /\ present["menuToggle"] \/ ~toggleActive
    /\ Document(NoStats, {}, {})

NextNav ==
    \/ DOMContentLoaded
    \/ MenuClick
    \/ \E href \in AnchorHrefs : AnchorClick(href)
    \/ \E y \in ScrollOffsets : Scroll(y)

SpecNav == InitNav /\ [][NextNav]_vars

\* the counters: one .stat-value element with any text of up to MaxTextLen characters
TextChars == {"+", "-", "%", "7", "0"}
Texts == UNION {[1..n -> TextChars] : n \in 1..MaxTextLen}

InitCounter ==
    /\ present = AllPresent
    /\ navActive = FALSE
    /\ toggleActive = FALSE
    /\ \E text \in Texts : Document([e \in {"stat1"} |-> text], {}, {})

NextCounter ==
    \/ DOMContentLoaded
    \/ \E e \in StatEls : Intersect("observer", e)
    \/ StatCallback
    \/ Tick

SpecCounter == InitCounter /\ [][NextCounter]_vars

\* the observers: pages with two elements of one kind, or one of each kind
ObsTexts == {<<"0">>, <<"N", "/", "A">>}
InitObs ==
    /\ navActive = FALSE
    /\ toggleActive = FALSE
    /\ \/ /\ present = AllPresent
          /\ \E stats \in [{"stat1", "stat2"} -> ObsTexts] : Document(stats, {}, {})
       \/ /\ present = AllPresent
          /\ Document(NoStats, {"msg1", "msg2"}, {})
       \/ /\ present = AllPresent
          /\ Document(NoStats, {}, {"card1", "card2"})
       \/ /\ present \in {AllPresent, [AllPresent EXCEPT !["chartCanvas"] = FALSE]}
          /\ Document([e \in {"stat1"} |-> <<"0">>], {"msg1"}, {"card1"})

NextObs ==
    \/ DOMContentLoaded
    \/ \E o \in ObserverNames : \E e \in Elements : Intersect(o, e)
    \/ StatCallback
    \/ Tick
    \/ ChatCallback
    \/ ChatTimeout
    \/ CardCallback
    \/ ChartCallback
    \/ Frame(animationDuration \div 2)

SpecObs == InitObs /\ [][NextObs]_vars

\* the chat bubbles among scrolling, menu clicks and the card observer
InitChat ==
    /\ present = AllPresent
    /\ navActive = FALSE
    /\ toggleActive = FALSE
    /\ Document(NoStats, {"msg1", "msg2"}, {"card1"})

NextChat ==
    \/ DOMContentLoaded
    \/ \E e \in ChatEls : Intersect("typingObserver", e)
    \/ ChatCallback
    \/ ChatTimeout
    \/ \E e \in CardEls : Intersect("animateOnScroll", e)
    \/ CardCallback
    \/ \E y \in {0, MaxScroll} : Scroll(y)
    \/ MenuClick

SpecChat == InitChat /\ [][NextChat]_vars

\* the chart: a page with the canvas, frames 1 to 250 ms apart
FrameGaps == {1, 16, 17, 250}
InitChart ==
    /\ present = AllPresent
    /\ navActive = FALSE
    /\ toggleActive = FALSE
    /\ Document(NoStats, {}, {})

NextChart ==
    \/ DOMContentLoaded
    \/ Intersect("chartObserver", ChartId)
    \/ ChartCallback
    \/ \E dt \in FrameGaps : Frame(dt)

SpecChart == InitChart /\ [][NextChart]_vars

\* the chart with the browser delivering every frame that was requested
FrameDelivered == \E dt \in FrameGaps : Frame(dt)
SpecChartFair == SpecChart /\ WF_vars(FrameDelivered)

---------------------------------------------------------------------------
(* Properties *)

\* C1: each one-shot observer executes its action at most once per element,
\* whatever entries its callbacks are handed.
C1_ActionAtMostOncePerElement == \A e \in DOMAIN calls : calls[e] <= 1

\* C2: once the timers of a counter have stopped, its text is the parsed
\* magnitude with the '+', '-' and '%' of the original text where they were:
\* those before the first digit in front, those after it behind.
IsDecoration(c) == c \in {"+", "-", "%"}
FirstDigit(text) == CHOOSE i \in 1..Len(text) :
                        IsDigit(text[i]) /\ \A j \in 1..(i - 1) : ~IsDigit(text[j])
Decorated(text) ==
    SelectSeq(SubSeq(text, 1, FirstDigit(text) - 1), IsDecoration)
    \o NumberToString(DigitsValue(SelectSeq(text, IsDigit)))
    \o SelectSeq(SubSeq(text, FirstDigit(text) + 1, Len(text)), IsDecoration)
TimersOf(e) == {i \in DOMAIN intervals : intervals[i].element = e}
C2_FinalTextKeepsDecorations ==
    \A e \in StatEls :
        (TimersOf(e) # {} /\ \A i \in TimersOf(e) : intervals[i].cleared)
        => \A i \in TimersOf(e) : textContent[e] = Decorated(intervals[i].text)

\* C3: right after a submit the control shows the success label, and once every
\* 3000ms timeout has fired the control shows the label it had before the
\* first submission.
C3_LabelRestoredAfterSubmits ==
    present["submitButton"] =>
        /\ lastEvent = <<"submit">> => buttonText = SuccessLabel
        /\ (submits > 0 /\ formTimers = <<>>) => buttonText = InitialLabel

\* C4: with any element of the markup absent, no handler raises an exception
\* for want of it, and the feature that needs the element has no effect.
C4_MissingElementsTolerated ==
    /\ \A x \in errors : x = "SyntaxError@anchorClick"
    /\ ~present["header"] => headerBg = ""
    /\ ~present["heroContent"] => heroOpacity = Rat(1, 1) /\ heroTransform = Rat(0, 1)
    /\ ~present["navMenu"] => ~navActive
    /\ ~present["menuToggle"] => ~toggleActive
    /\ ~present["submitButton"] => buttonText = InitialLabel /\ formTimers = <<>>

\* C5: a click on an anchor whose fragment names no element, the bare '#'
\* included, raises nothing, scrolls nowhere and leaves the menu and the menu
\* button as they were.
C5_ClickWithoutTargetIsNoOp ==
    [][\A href \in AnchorHrefs :
          (lastEvent' = <<"anchorClick", href>> /\ Tail(href) \notin DocIds)
          => UNCHANGED <<errors, scrolledTo, navActive, toggleActive>>]_vars

\* C6: a counter whose text holds no digit keeps its text in every step, gets
\* no timer and raises nothing, also when its observer triggers.
NoDigit(text) == \A i \in 1..Len(text) : ~IsDigit(text[i])
C6_NoDigitCounterUntouched ==
    [][\A e \in StatEls :
          NoDigit(textContent[e])
          => /\ textContent'[e] = textContent[e]
             /\ \A i \in DOMAIN intervals' : intervals'[i].element # e
             /\ errors' = errors]_vars
C6_NoDigitCounterTriggered ==
    \E e \in StatEls : NoDigit(textContent[e]) /\ calls[e] >= 1

\* C7: every scroll event sets the header background from its own offset alone,
\* flat dark above 100 and the gradient up to and including 100, and nothing
\* else changes the background.
C7_HeaderFollowsLastScroll ==
    [][/\ \A y \in ScrollOffsets :
             (present["header"] /\ lastEvent' = <<"scroll", y>>)
             => headerBg' = IF y > 100
                            THEN "rgba(10, 10, 10, 0.98)"
                            ELSE "linear-gradient(180deg, rgba(10,10,10,0.95) 0%, rgba(26,26,26,0.9) 100%)"
       /\ lastEvent'[1] # "scroll" => headerBg' = headerBg]_vars
C7_GradientAtExactly100 ==
    /\ present["header"]
    /\ lastEvent = <<"scroll", 100>>
    /\ headerBg = "linear-gradient(180deg, rgba(10,10,10,0.95) 0%, rgba(26,26,26,0.9) 100%)"

\* C8: a chart frame computes floor(12 x progress) points, the first samples of
\* the dataset in order: all 12 at progress 1 and none at progress 0.
C8_VisiblePointCount ==
    canvas.gridLines > 0 =>
        LET k == Len(canvas.points)
            p == canvas.progress
        IN  /\ k * p.den <= 12 * p.num
            /\ 12 * p.num < (k + 1) * p.den
            /\ canvas.points = SubSeq(data, 1, k)
            /\ p.num = p.den => k = 12
            /\ p.num = 0 => k = 0
C8_FullChartDrawn ==
    /\ canvas.gridLines > 0
    /\ canvas.progress.num = canvas.progress.den
    /\ Len(canvas.points) = 12

\* C9: after a scroll event with the hero present its translation is half the
\* offset and its opacity is 1 - offset/600, unclamped: 1/2 at 300, 0 at 600,
\* negative above 600.
C9_ParallaxUnclamped ==
    (present["heroContent"] /\ lastEvent[1] = "scroll") =>
        /\ RatEq(heroTransform, Rat(scrollY, 2))
        /\ RatEq(heroOpacity, Rat(600 - scrollY, 600))
        /\ scrollY = 300 => RatEq(heroOpacity, Rat(1, 2))
        /\ scrollY = 600 => RatEq(heroOpacity, Rat(0, 1))
        /\ scrollY > 600 => RatNeg(heroOpacity)
C9_NegativeOpacityReached ==
    /\ present["heroContent"]
    /\ lastEvent = <<"scroll", MaxScroll>>
    /\ RatNeg(heroOpacity)

\* C10: a counter's timer ticks at most 40 times; each tick displays
\* floor(current), never more than the magnitude, and the tick that clears the
\* timer displays the magnitude and is its last.
C10_TimerStopsWithin40Ticks ==
    \A i \in DOMAIN intervals :
        LET t == intervals[i] IN
        /\ t.ticks <= 40
        /\ BigShr(t.current, t.scale) <= t.numericValue
        /\ t.cleared => /\ BigShr(t.current, t.scale) = t.numericValue
                        /\ \A j \in 1..Len(runQueue) : runQueue[j] # i

\* C11: once drawChart ran and frames keep being delivered, the frame loop
\* stops requesting frames; a further frame is requested exactly while
\* progress < 1, progress stays within [0, 1], and the frame after which the
\* loop has stopped was drawn at progress 1 with all 12 points.
FrameDrawn == canvas.gridLines > 0
C11_FrameLoopState ==
    FrameDrawn =>
        /\ 0 <= canvas.progress.num
        /\ canvas.progress.num <= canvas.progress.den
        /\ rafPending > 0 <=> canvas.progress.num < canvas.progress.den
        /\ rafPending = 0 => /\ canvas.progress.num = canvas.progress.den
                             /\ Len(canvas.points) = 12
C11_FrameLoopTerminates ==
    /\ []C11_FrameLoopState
    /\ FrameDrawn ~> (rafPending = 0)
C11_LoopStoppedAtFullProgress ==
    /\ FrameDrawn
    /\ rafPending = 0
    /\ elapsed >= 2000
    /\ Len(canvas.points) = 12

\* C12: with the menu and its button in the page, a click on an anchor whose
\* target exists scrolls to the target and leaves both inactive if the menu was
\* active, and both as they were if it was not; a click on the button flips
\* the active state of both.
C12_AnchorClosesMenuButtonFlips ==
    [][(present["navMenu"] /\ present["menuToggle"]) =>
          /\ \A href \in AnchorHrefs :
                (lastEvent' = <<"anchorClick", href>> /\ Tail(href) \in DocIds)
                => /\ scrolledTo' = Tail(href)
                   /\ navActive => (~navActive' /\ ~toggleActive')
                   /\ ~navActive => UNCHANGED <<navActive, toggleActive>>
          /\ lastEvent' = <<"menuClick">>
                => (navActive' = ~navActive /\ toggleActive' = ~toggleActive)]_vars
C12_MenuClosedByAnchor ==
    /\ present["navMenu"] /\ present["menuToggle"]
    /\ lastEvent = <<"anchorClick", <<"#", "a">>>>
    /\ scrolledTo = <<"a">>
    /\ ~navActive /\ ~toggleActive

\* C15: a step from a state where the menu and the button agree on 'active'
\* leads to a state where they agree, so from an agreeing start they agree
\* after any clicks.
C15_MenuAndButtonAgree ==
    [][(navActive <=> toggleActive) => (navActive' <=> toggleActive')]_vars
C15_BothActiveAfterClick ==
    /\ lastEvent = <<"menuClick">>
    /\ navActive /\ toggleActive

\* C13: a chat bubble is hidden from initialization on, through its first
\* intersection, until a 300ms timeout of its own fires; that timeout makes it
\* visible, and it stays visible whatever else happens.
BubbleHidden(e) ==
    chatStyle[e].opacity = "0" /\ chatStyle[e].transform = "translateY(20px)"
BubbleVisible(e) ==
    chatStyle[e].opacity = "1" /\ chatStyle[e].transform = "translateY(0)"
PendingFor(e) == Cardinality({i \in 1..Len(chatTimeouts) : chatTimeouts[i] = e})
C13_BubbleState ==
    pc = "ready" =>
        \A e \in ChatEls :
            /\ calls[e] = PendingFor(e) => BubbleHidden(e)
            /\ calls[e] > PendingFor(e) => BubbleVisible(e)
C13_BubbleShownByTimeoutOnly ==
    /\ []C13_BubbleState
    /\ [][\A e \in ChatEls :
             /\ BubbleVisible(e) => BubbleVisible(e)'
             /\ (~BubbleVisible(e) /\ BubbleVisible(e)')
                => /\ chatTimeouts # <<>>
                   /\ Head(chatTimeouts) = e
                   /\ chatTimeouts' = Tail(chatTimeouts)]_vars
C13_BubbleVisibleAfterTimeout ==
    \E e \in ChatEls :
        /\ BubbleVisible(e)
        /\ calls[e] >= 1
        /\ PendingFor(e) = 0
        /\ lastEvent[1] = "scroll"

\* C14: every chart frame draws the six grid lines, and draws the filled area,
\* the line and one circle per point exactly when at least 2 points are
\* visible; with one visible point (progress in [1/12, 2/12)) or none, the
\* grid is all it draws.
C14_AreaLineCirclesFromTwoPoints ==
    FrameDrawn =>
        LET k == Len(canvas.points)
            p == canvas.progress
        IN  /\ canvas.gridLines = 6
            /\ canvas.area <=> k >= 2
            /\ canvas.line <=> k >= 2
            /\ canvas.circles = IF k >= 2 THEN k ELSE 0
            /\ (p.den <= 12 * p.num /\ 12 * p.num < 2 * p.den)
               => (k = 1 /\ ~canvas.area /\ ~canvas.line /\ canvas.circles = 0)
C14_OnePointGridOnly ==
    /\ FrameDrawn
    /\ Len(canvas.points) = 1
    /\ canvas.gridLines = 6
    /\ ~canvas.area /\ ~canvas.line /\ canvas.circles = 0

====
